---- MODULE Spec2Model ----
(***************************************************************************)
(* A model of the MariaDB charm (src/src/charm.py): one unit of the        *)
(* application, its stored state, its workload container (Pebble plan and  *)
(* services), its unit status, its backup directory, and the lifecycle     *)
(* events and actions it observes.  Every event is handled by a freshly    *)
(* constructed charm object, so every event action runs                    *)
(* MariadbCharm.__init__ before the observing handler.                     *)
(***************************************************************************)
EXTENDS Integers, Sequences, FiniteSets, TLC

\* ------------------------------------------------------------- constants
SERVICE == "mariadb"
COMMAND == "/usr/local/bin/docker-entrypoint.sh mysqld"

\* The value of config['port'] when the operator has set nothing.
DefaultPort == 3306

\* Number of distinct values the password generator can return in the model.
NumPasswords == 2

\* A generated root password: one of NumPasswords distinct 16-character strings.
Passwords == 1..NumPasswords

\* The last second of the model's wall clock; a backup is named after the second
\* it is taken in.
MaxClock == 2

\* The seconds of the wall clock, which are also the names backups can have.
Seconds == 1..MaxClock

\* The address 'unit-get private-address' reports for the unit.
UnitAddress == "10.1.0.1"

\* Values the operator can give the integer option 'port' (nothing in the
\* charm restricts them): the default, the greatest port and the integers just
\* outside 1..65535.
ConfigPorts == {0, DefaultPort, 65535, 65536}

VARIABLES
    config,    \* self.model.config['port'], as the operator last set it
    leader,    \* self.unit.is_leader()
    stored,    \* self._stored: attribute name -> value
    status,    \* self.unit.status
    plan,      \* the container's Pebble plan: service name -> service definition
    services,  \* the container's services: service name -> current status
    relData,   \* event.relation.data[self.unit] of the database relation
    address,   \* what 'unit-get private-address' reports for this unit
    clock,     \* datetime.now(), in seconds
    backupDir, \* whether the directory DB_BACKUP_PATH exists
    backups,   \* the files of DB_BACKUP_PATH: name -> creation time and origin
    last       \* the event handled by the last step, its inputs and how it ended

vars == <<config, leader, stored, status, plan, services, relData,
          address, clock, backupDir, backups, last>>

\* The variables no lifecycle handler touches.
actionVars == <<address, clock, backupDir, backups>>

\* ---------------------------------------------------------------- status
ActiveStatus(msg) == [name |-> "active", message |-> msg]
WaitingStatus(msg) == [name |-> "waiting", message |-> msg]
MaintenanceStatus(msg) == [name |-> "maintenance", message |-> msg]
\* The status of a unit whose charm has not set one yet.
UnknownStatus == [name |-> "unknown", message |-> ""]

\* ---------------------------------------------------------- stored state
\* StoredState.set_default(key=value): sets the attribute only when it is absent.
SetDefault(st, key, value) ==
    IF key \in DOMAIN st
    THEN st
    ELSE [k \in DOMAIN st \cup {key} |-> IF k = key THEN value ELSE st[k]]

\* The password the generator returns to the unit's first construction: the
\* strings are numbered from the one it returns first.
FirstPassword == CHOOSE p \in Passwords : \A q \in Passwords : p <= q

\* self._gen_root_password(): any of the strings the generator can return.
GenRootPassword == Passwords

\* Construct as a charm that assigned the password instead of defaulting it.
ConstructRegenerates(st, port, gen) ==
    [SetDefault(SetDefault(SetDefault(st, "database", <<>>),
                           "ports", <<port>>),
                "root_password", gen) EXCEPT !["root_password"] = gen]

\* The three set_default calls that end MariadbCharm.__init__; gen is the value
\* self._gen_root_password() returned for this construction.
Construct(st, port, gen) ==
    SetDefault(SetDefault(SetDefault(st, "database", <<>>),
                          "ports", <<port>>),
               "root_password", gen)

\* --------------------------------------------------------------- workload
\* PebbleLayer as a layer whose service is not started automatically.
PebbleLayerDisabled(password) ==
    [s \in {"mariadb"} |->
        [override |-> "replace",
         summary |-> "mariadb",
         command |-> COMMAND,
         startup |-> "disabled",
         environment |-> [MYSQL_ROOT_PASSWORD |-> password]]]

\* The layer _on_mariadb_pebble_ready builds: its services.
PebbleLayer(password) ==
    [s \in {"mariadb"} |->
        [override |-> "replace",
         summary |-> "mariadb",
         command |-> COMMAND,
         startup |-> "enabled",
         environment |-> [MYSQL_ROOT_PASSWORD |-> password]]]

\* container.add_layer(label, layer, combine=True): a service of the layer with
\* override 'replace' replaces the plan's service of that name; the plan's other
\* services stay.
AddLayer(pl, layer) ==
    [s \in DOMAIN pl \cup DOMAIN layer |->
        IF s \in DOMAIN layer THEN layer[s] ELSE pl[s]]

\* The services after a layer was added: a service new to the plan is inactive.
ServicesOf(pl, sv) ==
    [s \in DOMAIN pl |-> IF s \in DOMAIN sv THEN sv[s] ELSE "inactive"]

\* container.autostart(): starts every service of the plan with startup 'enabled'.
Autostart(pl, sv) ==
    [s \in DOMAIN sv |-> IF pl[s].startup = "enabled" THEN "active" ELSE sv[s]]

\* container.get_service(name): ModelError when the plan has no such service; a
\* Pebble that cannot be reached raises its own error, which is no ModelError.
GetService(name, fault) ==
    IF fault = "PebbleError"
    THEN [exc |-> "PebbleError", current |-> "none"]
    ELSE IF name \notin DOMAIN services
    THEN [exc |-> "ModelError", current |-> "none"]
    ELSE [exc |-> "none", current |-> services[name]]

\* IsReady as a function without the try/except around the query.
IsReadyUnguarded(fault) ==
    LET r == GetService(SERVICE, fault)
    IN  IF r.exc # "none"
        THEN [exc |-> r.exc, value |-> FALSE]
        ELSE [exc |-> "none", value |-> r.current = "active"]

\* self._is_ready(): is_running() of the service, False on a ModelError; any
\* other exception leaves the function.
IsReady(fault) ==
    LET r == GetService(SERVICE, fault)
    IN  IF r.exc = "ModelError"
        THEN [exc |-> "none", value |-> FALSE]
        ELSE IF r.exc # "none"
        THEN [exc |-> r.exc, value |-> FALSE]
        ELSE [exc |-> "none", value |-> r.current = "active"]

\* ------------------------------------------------------ event bookkeeping
\* What the environment gives a handler: the collaborator call it makes fail
\* ("none": no call fails), for the restore action what 'action-get path' prints
\* (a backup's name, 0: nothing), and for a restore without a path the file glob
\* lists first among the newest (0: unused).
Input(fault, path, pick) == [fault |-> fault, path |-> path, pick |-> pick]

\* The lifecycle events the charm observes; the framework delivers them at least once.
LifecycleEvents ==
    {"mariadb_pebble_ready", "install", "config_changed", "update_status",
     "peer_relation_joined", "peer_relation_departed", "database_relation_changed"}

\* No result was set for the action.
NoResults == [set |-> FALSE, message |-> "", files |-> {}, fail |-> "absent"]

\* No command was run against the database.
NoTool == [kind |-> "none", password |-> 0, host |-> "", file |-> 0]

\* What an action reported: whether event.fail was called and with what, what
\* event.set_results was called with, and the database command the action ran.
Report(failed, reason, results, tool) ==
    [failed |-> failed, reason |-> reason, results |-> results, tool |-> tool]

\* The report of a handler that is no action.
NoReport == Report(FALSE, "", NoResults, NoTool)

\* What a step records of the event it handled: the event, the password the
\* constructor generated, the injected fault, what 'action-get path' printed,
\* whether the handler returned ("ok") or an exception left it ("uncaught"), whether this is a lifecycle event
\* delivered again right after the handler returned from it, the status the
\* handler found, and the action's report.
Handled(ev, gen, in, outcome, report) ==
    [event |-> ev, gen |-> gen, fault |-> in.fault, path |-> in.path,
     outcome |-> outcome,
     again |-> (ev \in LifecycleEvents /\ last.event = ev /\ last.outcome = "ok"),
     was |-> status.name,
     report |-> report]

\* No event was handled by the last step (the environment moved).
NoEvent ==
    [event |-> "none", gen |-> 0, fault |-> "none", path |-> 0, outcome |-> "ok",
     again |-> FALSE, was |-> "none", report |-> NoReport]

\* Observer as a charm whose peer relation events only refresh the status.
ObserverPeerRefreshesStatus(ev) ==
    CASE ev = "mariadb_pebble_ready" -> "_on_mariadb_pebble_ready"
      [] ev = "install" -> "_on_install"
      [] ev = "config_changed" -> "_on_config_changed"
      [] ev = "update_status" -> "_on_update_status"
      [] ev = "peer_relation_joined" -> "_on_update_status"
      [] ev = "peer_relation_departed" -> "_on_update_status"
      [] ev = "database_relation_changed" -> "_on_database_relation_changed"
      [] ev = "restart_action" -> "_on_restart_action"
      [] ev = "backup_action" -> "_on_backup_action"
      [] ev = "listbackup_action" -> "_on_list_backup"
      [] ev = "restore_action" -> "_on_restore_action"

\* Observer as a charm whose config-changed event applies the layer again.
ObserverConfigAppliesLayer(ev) ==
    CASE ev = "mariadb_pebble_ready" -> "_on_mariadb_pebble_ready"
      [] ev = "install" -> "_on_install"
      [] ev = "config_changed" -> "_on_mariadb_pebble_ready"
      [] ev = "update_status" -> "_on_update_status"
      [] ev = "peer_relation_joined" -> "_on_config_changed"
      [] ev = "peer_relation_departed" -> "_on_config_changed"
      [] ev = "database_relation_changed" -> "_on_database_relation_changed"
      [] ev = "restart_action" -> "_on_restart_action"
      [] ev = "backup_action" -> "_on_backup_action"
      [] ev = "listbackup_action" -> "_on_list_backup"
      [] ev = "restore_action" -> "_on_restore_action"

\* The observers MariadbCharm.__init__ registers: event -> handler.
Observer(ev) ==
    CASE ev = "mariadb_pebble_ready" -> "_on_mariadb_pebble_ready"
      [] ev = "install" -> "_on_install"
      [] ev = "config_changed" -> "_on_config_changed"
      [] ev = "update_status" -> "_on_update_status"
      [] ev = "peer_relation_joined" -> "_on_config_changed"
      [] ev = "peer_relation_departed" -> "_on_config_changed"
      [] ev = "database_relation_changed" -> "_on_database_relation_changed"
      [] ev = "restart_action" -> "_on_restart_action"
      [] ev = "backup_action" -> "_on_backup_action"
      [] ev = "listbackup_action" -> "_on_list_backup"
      [] ev = "restore_action" -> "_on_restore_action"

\* The handlers of MariadbCharm.
Handlers ==
    {"_on_mariadb_pebble_ready", "_on_install", "_on_config_changed",
     "_on_update_status", "_on_database_relation_changed",
     "_on_restart_action", "_on_backup_action", "_on_list_backup",
     "_on_restore_action"}

\* The framework delivers an event to the charm only when a handler observes it.
Observed(ev) == Observer(ev) \in Handlers

\* The collaborator faults the environment can inject into a lifecycle handler.
Faults(h) ==
    CASE h = "_on_mariadb_pebble_ready" -> {"none", "add_layer", "autostart"}
      [] h = "_on_install" -> {"none", "apt_update", "apt_install"}
      [] h \in {"_on_config_changed", "_on_update_status"} ->
            IF leader THEN {"none", "PebbleError"} ELSE {"none"}
      [] OTHER -> {"none"}

\* The inputs of a lifecycle handler.
Inputs(h) == {Input(f, 0, 0) : f \in Faults(h)}

\* ---------------------------------------------------------------- handlers
\* LayerPassword as a handler that puts a newly generated password in the layer.
LayerPasswordFresh(st, gen) == gen

\* The MYSQL_ROOT_PASSWORD of the layer: self._stored.root_password.
LayerPassword(st, gen) == st["root_password"]

\* _on_mariadb_pebble_ready: add the layer, autostart, set ActiveStatus(); no
\* call is guarded, so a failing add_layer or autostart leaves the handler as an
\* exception, before the status is set.
OnMariadbPebbleReady(ev, st, gen, in) ==
    LET layer == PebbleLayer(LayerPassword(st, gen))
        plan1 == AddLayer(plan, layer)
        sv1 == ServicesOf(plan1, services)
    IN  /\ stored' = st
        /\ plan' = IF in.fault = "add_layer" THEN plan ELSE plan1
        /\ services' = CASE in.fault = "add_layer" -> services
                         [] in.fault = "autostart" -> sv1
                         [] OTHER -> Autostart(plan1, sv1)
        /\ status' = IF in.fault = "none" THEN ActiveStatus("") ELSE status
        /\ last' = Handled(ev, gen, in,
                           IF in.fault = "none" THEN "ok" ELSE "uncaught", NoReport)
        /\ UNCHANGED <<config, leader, relData, actionVars>>

\* _on_install: two subprocess.check_call; a non-zero exit raises
\* CalledProcessError out of the handler.
OnInstall(ev, st, gen, in) ==
    /\ stored' = st
    /\ last' = Handled(ev, gen, in,
                       IF in.fault = "none" THEN "ok" ELSE "uncaught", NoReport)
    /\ UNCHANGED <<config, leader, status, plan, services, relData, actionVars>>

\* UpdateStatus as a handler that queries the service on every unit.
UpdateStatusEveryUnit(fault) ==
    LET r == IsReady(fault)
    IN  IF r.exc # "none"
        THEN [status |-> status, exc |-> r.exc]
        ELSE IF ~r.value
        THEN [status |-> WaitingStatus("service not ready yet"), exc |-> "none"]
        ELSE [status |-> ActiveStatus(""), exc |-> "none"]

\* The body of _on_update_status: the status it sets and the exception leaving it.
UpdateStatus(fault) ==
    IF ~leader
    THEN [status |-> ActiveStatus(""), exc |-> "none"]
    ELSE LET r == IsReady(fault)
         IN  IF r.exc # "none"
             THEN [status |-> status, exc |-> r.exc]
             ELSE IF ~r.value
             THEN [status |-> WaitingStatus("service not ready yet"), exc |-> "none"]
             ELSE [status |-> ActiveStatus(""), exc |-> "none"]

\* _on_update_status
OnUpdateStatus(ev, st, gen, in) ==
    LET r == UpdateStatus(in.fault)
    IN  /\ stored' = st
        /\ status' = r.status
        /\ last' = Handled(ev, gen, in,
                           IF r.exc = "none" THEN "ok" ELSE "uncaught", NoReport)
        /\ UNCHANGED <<config, leader, plan, services, relData, actionVars>>

\* ConfiguredPorts as a handler that appends the port to the stored list.
ConfiguredPortsAppended(st) == Append(st["ports"], config)

\* The value _on_config_changed writes to self._stored.ports.
ConfiguredPorts(st) == <<config>>

\* _on_config_changed: store the configured port, then _on_update_status(event).
OnConfigChanged(ev, st, gen, in) ==
    LET r == UpdateStatus(in.fault)
    IN  /\ stored' = [st EXCEPT !["ports"] = ConfiguredPorts(st)]
        /\ status' = r.status
        /\ last' = Handled(ev, gen, in,
                           IF r.exc = "none" THEN "ok" ELSE "uncaught", NoReport)
        /\ UNCHANGED <<config, leader, plan, services, relData, actionVars>>

\* _on_database_relation_changed: write the stored password to the unit's data bag.
OnDatabaseRelationChanged(ev, st, gen, in) ==
    /\ stored' = st
    /\ relData' = [k \in DOMAIN relData \cup {"root-password"} |->
                      IF k = "root-password" THEN st["root_password"] ELSE relData[k]]
    /\ last' = Handled(ev, gen, in, "ok", NoReport)
    /\ UNCHANGED <<config, leader, status, plan, services, actionVars>>

\* ----------------------------------------------------------------- actions
\* The values event.params['fail'] can have when a handler reads it: no such key
\* ("absent"), None, a text.
FailParams == {"absent", "None", "fail this"}

\* The diagnostic text of a failing call (str(e), e.output): named after the call.
Diagnostic(call) == call

\* self._get_ip(): the output of 'unit-get private-address'. The except clause
\* names ModelError, which a subprocess never raises: a failing unit-get leaves
\* the function as CalledProcessError.
GetIp(fault) ==
    IF fault = "unit_get"
    THEN [exc |-> "CalledProcessError", value |-> ""]
    ELSE [exc |-> "none", value |-> address]

\* self._set_fail_message(event, msg), fail being event.params['fail']: KeyError
\* when params has no 'fail'; else msg replaces a 'fail' that is None, and
\* event.fail and event.set_results get params['fail'] and params.
SetFailMessage(fail, msg) ==
    IF fail = "absent"
    THEN [exc |-> "KeyError", reason |-> "", results |-> NoResults]
    ELSE LET reason == IF fail = "None" THEN msg ELSE fail
         IN  [exc |-> "none", reason |-> reason,
              results |-> [set |-> TRUE, message |-> "", files |-> {}, fail |-> reason]]

\* How a handler ends that calls self._set_fail_message(event, msg) last.
Failing(ev, gen, in, fail, msg, tool) ==
    LET fm == SetFailMessage(fail, msg)
    IN  IF fm.exc # "none"
        THEN Handled(ev, gen, in, "uncaught", Report(FALSE, "", NoResults, tool))
        ELSE Handled(ev, gen, in, "ok", Report(TRUE, fm.reason, fm.results, tool))

\* How a handler ends that calls event.set_results({"message": ...}) last.
Succeeding(ev, gen, in, message, files, tool) ==
    Handled(ev, gen, in, "ok",
            Report(FALSE, "",
                   [set |-> TRUE, message |-> message, files |-> files, fail |-> "absent"],
                   tool))

\* The calls of _on_restart_action the environment can make fail: the status
\* query, the stop (made only when the service is active) and the start, each
\* with a ModelError or with another error of Pebble.
RestartFaults ==
    {"none", "PebbleError"}
    \cup (IF SERVICE \in DOMAIN services
          THEN {"start_ModelError", "start_PebbleError"} ELSE {})
    \cup (IF SERVICE \in DOMAIN services /\ services[SERVICE] = "active"
          THEN {"stop_ModelError", "stop_PebbleError"} ELSE {})

\* RestartRun as a handler that sets the status of a restarted service before
\* it starts the service.
RestartRunActiveFirst(fault) ==
    LET r == GetService(SERVICE, fault)
        stopped == IF r.exc = "none" /\ r.current = "active"
                   THEN [services EXCEPT ![SERVICE] = "inactive"]
                   ELSE services
    IN  IF r.exc # "none"
        THEN [at |-> "get_service", caught |-> (r.exc = "ModelError"),
              services |-> services, status |-> status]
        ELSE IF r.current = "active" /\ fault \in {"stop_ModelError", "stop_PebbleError"}
        THEN [at |-> "stop", caught |-> (fault = "stop_ModelError"),
              services |-> services, status |-> status]
        ELSE IF fault \in {"start_ModelError", "start_PebbleError"}
        THEN [at |-> "start", caught |-> (fault = "start_ModelError"),
              services |-> stopped,
              status |-> ActiveStatus("mariadb restarted")]
        ELSE [at |-> "done", caught |-> TRUE,
              services |-> [stopped EXCEPT ![SERVICE] = "active"],
              status |-> ActiveStatus("mariadb restarted")]

\* The try block of _on_restart_action: the call it stops at ("done": none), whether
\* the except clause catches what that call raised, and the services and status
\* it leaves.
RestartRun(fault) ==
    LET r == GetService(SERVICE, fault)
        stopped == IF r.exc = "none" /\ r.current = "active"
                   THEN [services EXCEPT ![SERVICE] = "inactive"]
                   ELSE services
    IN  IF r.exc # "none"
        THEN [at |-> "get_service", caught |-> (r.exc = "ModelError"),
              services |-> services, status |-> status]
        ELSE IF r.current = "active" /\ fault \in {"stop_ModelError", "stop_PebbleError"}
        THEN [at |-> "stop", caught |-> (fault = "stop_ModelError"),
              services |-> services, status |-> status]
        ELSE IF fault \in {"start_ModelError", "start_PebbleError"}
        THEN [at |-> "start", caught |-> (fault = "start_ModelError"),
              services |-> stopped,
              status |-> MaintenanceStatus("mariadb maintenance")]
        ELSE [at |-> "done", caught |-> TRUE,
              services |-> [stopped EXCEPT ![SERVICE] = "active"],
              status |-> ActiveStatus("mariadb restarted")]

\* _on_restart_action
OnRestartAction(ev, st, gen, in) ==
    LET run == RestartRun(in.fault)
    IN  /\ stored' = st
        /\ services' = run.services
        /\ status' = run.status
        /\ IF run.at # "done" /\ ~run.caught
           THEN last' = Handled(ev, gen, in, "uncaught", NoReport)
           ELSE \E fail \in FailParams :
                   last' = IF run.at = "done"
                           THEN Handled(ev, gen, in, "ok",
                                        Report(FALSE, "",
                                               [set |-> TRUE, message |-> "",
                                                files |-> {}, fail |-> fail],
                                               NoTool))
                           ELSE Failing(ev, gen, in, fail, Diagnostic(run.at), NoTool)
        /\ UNCHANGED <<config, leader, plan, relData, actionVars>>

\* The mysqldump command line of _on_backup_action: password, host and target file.
BackupCommand(st, ip, name) ==
    [kind |-> "export", password |-> st["root_password"], host |-> ip, file |-> name]

\* _on_backup_action: mkdir -p and unit-get run outside the try block; the exit
\* status of 'mysqldump | gzip > file' is gzip's, so a failing mysqldump goes
\* unseen and only a failing gzip or redirection raises CalledProcessError.
OnBackupAction(ev, st, gen, in) ==
    LET name == clock
        ip == GetIp(in.fault)
        tool == BackupCommand(st, ip.value, name)
        written == [n \in DOMAIN backups \cup {name} |->
                       IF n = name
                       THEN [ctime |-> clock, password |-> tool.password,
                             host |-> tool.host]
                       ELSE backups[n]]
    IN  /\ stored' = st
        /\ backupDir' = (backupDir \/ in.fault # "mkdir")
        /\ backups' = IF in.fault \in {"mkdir", "unit_get", "redirect"}
                      THEN backups
                      ELSE written
        /\ CASE in.fault \in {"mkdir", "unit_get"} ->
                    last' = Handled(ev, gen, in, "uncaught", NoReport)
             [] in.fault \in {"gzip", "redirect"} ->
                    \E fail \in FailParams :
                        last' = Failing(ev, gen, in, fail, Diagnostic(in.fault), tool)
             [] OTHER ->
                    last' = Succeeding(ev, gen, in, "backup", {name}, tool)
        /\ UNCHANGED <<config, leader, status, plan, services, relData, address, clock>>

\* OnListBackup as a handler that sets a waiting status when 'ls' fails.
OnListBackupWaiting(ev, st, gen, in) ==
    /\ stored' = st
    /\ IF in.fault = "ls" \/ ~backupDir
       THEN /\ \E fail \in FailParams :
                  last' = Failing(ev, gen, in, fail, Diagnostic("ls"), NoTool)
            /\ status' = WaitingStatus("no backup directory")
       ELSE /\ last' = Succeeding(ev, gen, in, "backup files",
                                  IF DOMAIN backups = {} THEN {0} ELSE DOMAIN backups,
                                  NoTool)
            /\ status' = status
    /\ UNCHANGED <<config, leader, plan, services, relData, actionVars>>

\* _on_list_backup: 'ls' fails when the directory does not exist; of an empty
\* directory it prints nothing, and ''.split("\n") is the one-element list [''],
\* which 0 stands for.
OnListBackup(ev, st, gen, in) ==
    /\ stored' = st
    /\ IF in.fault = "ls" \/ ~backupDir
       THEN \E fail \in FailParams :
               last' = Failing(ev, gen, in, fail, Diagnostic("ls"), NoTool)
       ELSE last' = Succeeding(ev, gen, in, "backup files",
                               IF DOMAIN backups = {} THEN {0} ELSE DOMAIN backups,
                               NoTool)
    /\ UNCHANGED <<config, leader, status, plan, services, relData, actionVars>>

\* The files max(list_of_files, key=os.path.getctime) can return: glob lists the
\* directory in no particular order and max keeps the first of the greatest.
Newest == {n \in DOMAIN backups : \A m \in DOMAIN backups : backups[m].ctime <= backups[n].ctime}

\* RestoreCommand as a command line that names the local host.
RestoreCommandLocalhost(st, ip, file) ==
    [kind |-> "import", password |-> st["root_password"], host |-> "localhost",
     file |-> file]

\* The mysql command line of _on_restore_action: file, password and host.
RestoreCommand(st, ip, file) ==
    [kind |-> "import", password |-> st["root_password"], host |-> ip, file |-> file]

\* _on_restore_action: all of it runs in a try block that catches
\* CalledProcessError only; max() of an empty list raises ValueError. The exit
\* status of 'gunzip -c file | mysql' is mysql's, so a failing gunzip goes unseen.
OnRestoreAction(ev, st, gen, in) ==
    LET path == in.path
        empty == (path = 0 /\ DOMAIN backups = {})
        file == IF path = 0 THEN in.pick ELSE path
        ip == GetIp(in.fault)
        tool == RestoreCommand(st, ip.value, file)
    IN  /\ stored' = st
        /\ CASE in.fault = "action_get" ->
                    \E fail \in FailParams :
                        last' = Failing(ev, gen, in, fail, Diagnostic("action_get"), NoTool)
             [] in.fault # "action_get" /\ empty ->
                    last' = Handled(ev, gen, in, "uncaught", NoReport)
             [] in.fault = "unit_get" /\ ~empty ->
                    \E fail \in FailParams :
                        last' = Failing(ev, gen, in, fail, Diagnostic("unit_get"), NoTool)
             [] in.fault = "mysql" /\ ~empty ->
                    \E fail \in FailParams :
                        last' = Failing(ev, gen, in, fail, Diagnostic("mysql"), tool)
             [] OTHER ->
                    last' = Succeeding(ev, gen, in, "restored", {file}, tool)
        /\ UNCHANGED <<config, leader, status, plan, services, relData, actionVars>>

\* The inputs of an action handler.
ActionInputs(h) ==
    CASE h = "_on_restart_action" -> {Input(f, 0, 0) : f \in RestartFaults}
      [] h = "_on_backup_action" ->
            {Input(f, 0, 0) :
                f \in {"none", "mkdir", "unit_get", "mysqldump", "gzip", "redirect"}}
      [] h = "_on_list_backup" ->
            {Input(f, 0, 0) : f \in (IF backupDir THEN {"none", "ls"} ELSE {"none"})}
      [] h = "_on_restore_action" ->
            {Input("action_get", 0, 0)}
            \cup UNION {{Input(f, p, c) :
                            f \in {"none", "unit_get", "gunzip", "mysql"},
                            c \in (IF p = 0 /\ Newest # {} THEN Newest ELSE {0})} :
                        p \in {0} \cup Seconds}

\* The framework constructs the charm and calls the handler observing the event;
\* gen is what the constructor's password generator returns, in what the
\* environment gives the handler.
Emit(ev, gen, in) ==
    LET st == Construct(stored, config, gen)
        h == Observer(ev)
    IN  CASE h = "_on_mariadb_pebble_ready" -> OnMariadbPebbleReady(ev, st, gen, in)
          [] h = "_on_install" -> OnInstall(ev, st, gen, in)
          [] h = "_on_config_changed" -> OnConfigChanged(ev, st, gen, in)
          [] h = "_on_update_status" -> OnUpdateStatus(ev, st, gen, in)
          [] h = "_on_database_relation_changed" ->
                OnDatabaseRelationChanged(ev, st, gen, in)
          [] h = "_on_restart_action" -> OnRestartAction(ev, st, gen, in)
          [] h = "_on_backup_action" -> OnBackupAction(ev, st, gen, in)
          [] h = "_on_list_backup" -> OnListBackup(ev, st, gen, in)
          [] h = "_on_restore_action" -> OnRestoreAction(ev, st, gen, in)

\* ------------------------------------------------------------ environment
\* The operator sets the option 'port' (the config-changed event follows later).
SetConfig ==
    /\ \E p \in ConfigPorts \ {config} : config' = p
    /\ last' = NoEvent
    /\ UNCHANGED <<leader, stored, status, plan, services, relData, actionVars>>

\* The operator sets the option 'port' of a unit deployed with the default, once.
SetConfigOnce ==
    /\ config = DefaultPort
    /\ SetConfig

\* Leadership moves to or away from this unit.
LeaderChange ==
    /\ leader' = ~leader
    /\ last' = NoEvent
    /\ UNCHANGED <<config, stored, status, plan, services, relData, actionVars>>

\* The statuses Pebble reports for a service of the plan.
ServiceStatuses == {"active", "inactive", "error"}

\* Pebble's supervision changes a service's status: the service exits or fails,
\* or Pebble restarts it after it did.
ServiceChange ==
    /\ \E s \in DOMAIN services :
          \E c \in ServiceStatuses \ {services[s]} :
              services' = [services EXCEPT ![s] = c]
    /\ last' = NoEvent
    /\ UNCHANGED <<config, leader, stored, status, plan, relData, actionVars>>

\* A second passes.
Tick ==
    /\ clock < MaxClock
    /\ clock' = clock + 1
    /\ last' = NoEvent
    /\ UNCHANGED <<config, leader, stored, status, plan, services, relData,
                   address, backupDir, backups>>

\* Something outside the charm changes a backup file's inode (its owner, its
\* mode, its content): its creation time, as os.path.getctime reads it, is now.
Touch ==
    /\ \E n \in DOMAIN backups :
          /\ backups[n].ctime < clock
          /\ backups' = [backups EXCEPT ![n].ctime = clock]
    /\ last' = NoEvent
    /\ UNCHANGED <<config, leader, stored, status, plan, services, relData,
                   address, clock, backupDir>>

\* The workload container is replaced: Pebble starts again with an empty plan.
ContainerRestart ==
    /\ plan # <<>>
    /\ plan' = <<>>
    /\ services' = <<>>
    /\ last' = NoEvent
    /\ UNCHANGED <<config, leader, stored, status, relData, actionVars>>

\* ------------------------------------------------------------ the system
Init ==
    /\ config = DefaultPort
    /\ leader \in BOOLEAN
    /\ stored = Construct(<<>>, config, FirstPassword)
    /\ status = UnknownStatus
    /\ plan = <<>>
    /\ services = <<>>
    /\ relData = <<>>
    /\ address = UnitAddress
    /\ clock = 1
    /\ backupDir = FALSE
    /\ backups = <<>>
    /\ last = NoEvent

PebbleReady ==
    \E gen \in GenRootPassword :
        \E in \in Inputs(Observer("mariadb_pebble_ready")) :
            /\ Observed("mariadb_pebble_ready")
            /\ Emit("mariadb_pebble_ready", gen, in)

Install ==
    \E gen \in GenRootPassword :
        \E in \in Inputs(Observer("install")) :
            /\ Observed("install")
            /\ Emit("install", gen, in)

ConfigChanged ==
    \E gen \in GenRootPassword :
        \E in \in Inputs(Observer("config_changed")) :
            /\ Observed("config_changed")
            /\ Emit("config_changed", gen, in)

UpdateStatusEvent ==
    \E gen \in GenRootPassword :
        \E in \in Inputs(Observer("update_status")) :
            /\ Observed("update_status")
            /\ Emit("update_status", gen, in)

PeerRelationJoined ==
    \E gen \in GenRootPassword :
        \E in \in Inputs(Observer("peer_relation_joined")) :
            /\ Observed("peer_relation_joined")
            /\ Emit("peer_relation_joined", gen, in)

PeerRelationDeparted ==
    \E gen \in GenRootPassword :
        \E in \in Inputs(Observer("peer_relation_departed")) :
            /\ Observed("peer_relation_departed")
            /\ Emit("peer_relation_departed", gen, in)

DatabaseRelationChanged ==
    \E gen \in GenRootPassword :
        \E in \in Inputs(Observer("database_relation_changed")) :
            /\ Observed("database_relation_changed")
            /\ Emit("database_relation_changed", gen, in)


RestartAction ==
    \E gen \in GenRootPassword :
        \E in \in ActionInputs(Observer("restart_action")) :
            /\ Observed("restart_action")
            /\ Emit("restart_action", gen, in)

BackupAction ==
    \E gen \in GenRootPassword :
        \E in \in ActionInputs(Observer("backup_action")) :
            /\ Observed("backup_action")
            /\ Emit("backup_action", gen, in)

ListBackupAction ==
    \E gen \in GenRootPassword :
        \E in \in ActionInputs(Observer("listbackup_action")) :
            /\ Observed("listbackup_action")
            /\ Emit("listbackup_action", gen, in)

RestoreAction ==
    \E gen \in GenRootPassword :
        \E in \in ActionInputs(Observer("restore_action")) :
            /\ Observed("restore_action")
            /\ Emit("restore_action", gen, in)

Next ==
    \/ PebbleReady
    \/ Install
    \/ ConfigChanged
    \/ UpdateStatusEvent
    \/ PeerRelationJoined
    \/ PeerRelationDeparted
    \/ DatabaseRelationChanged
    \/ RestartAction
    \/ BackupAction
    \/ ListBackupAction
    \/ RestoreAction
    \/ Tick
    \/ Touch
    \/ LeaderChange
    \/ ServiceChange
    \/ ContainerRestart

\* Every event and action the charm observes, under the configuration the unit
\* was deployed with.
Spec == Init /\ [][Next]_vars

\* The handlers that read the configuration, the leadership or the workload, with
\* the operator changing the configuration; the backup directory stays untouched.
NextConfig ==
    \/ SetConfig
    \/ PebbleReady
    \/ Install
    \/ ConfigChanged
    \/ UpdateStatusEvent
    \/ PeerRelationJoined
    \/ PeerRelationDeparted
    \/ DatabaseRelationChanged
    \/ RestartAction
    \/ LeaderChange
    \/ ServiceChange
    \/ ContainerRestart

SpecConfig == Init /\ [][NextConfig]_vars

\* Every event and action the charm observes, with the operator changing the
\* configuration once and the container being replaced; leadership, the services and
\* the clock move by no other hand.
NextFrame ==
    \/ SetConfigOnce
    \/ PebbleReady
    \/ Install
    \/ ConfigChanged
    \/ UpdateStatusEvent
    \/ PeerRelationJoined
    \/ PeerRelationDeparted
    \/ DatabaseRelationChanged
    \/ RestartAction
    \/ BackupAction
    \/ ListBackupAction
    \/ RestoreAction
    \/ ContainerRestart

SpecFrame == Init /\ [][NextFrame]_vars

\* ------------------------------------------------------------------ claims
\* The outcome of the service-status query a handler makes in the current state.
ServiceRunning == SERVICE \in DOMAIN services /\ services[SERVICE] = "active"

\* The events observed by _on_config_changed.
ConfigEvents == {"config_changed", "peer_relation_joined", "peer_relation_departed"}

\* C1: the stored root password exists from construction on and no step, whatever
\* event it handles and whatever password its constructor generates, changes it.
C1_CredentialGeneratedOnce ==
    [][/\ "root_password" \in DOMAIN stored
       /\ "root_password" \in DOMAIN stored'
       /\ stored'["root_password"] = stored["root_password"]]_vars

\* An event was handled whose constructor generated another password than the stored one.
C1_Witness ==
    /\ last.event # "none"
    /\ last.gen # stored["root_password"]

\* C2: after a workload-ready event handled without a collaborator failure, the plan
\* is exactly the service 'mariadb' (command, startup enabled, override replace,
\* MYSQL_ROOT_PASSWORD = the stored password), the service runs, the status is
\* Active with no message.
C2_PebbleReadyResult ==
    (last.event = "mariadb_pebble_ready" /\ last.outcome = "ok") =>
        /\ DOMAIN plan = {"mariadb"}
        /\ plan["mariadb"] =
              [override |-> "replace",
               summary |-> "mariadb",
               command |-> "/usr/local/bin/docker-entrypoint.sh mysqld",
               startup |-> "enabled",
               environment |-> [MYSQL_ROOT_PASSWORD |-> stored["root_password"]]]
        /\ DOMAIN services = {"mariadb"}
        /\ services["mariadb"] = "active"
        /\ status = [name |-> "active", message |-> ""]

\* The workload-ready event was handled for the first time on this container.
C2_Witness ==
    /\ last.event = "mariadb_pebble_ready"
    /\ last.outcome = "ok"
    /\ ~last.again
    /\ last.was = "unknown"
    /\ "mariadb" \in DOMAIN plan

\* C3: a workload-ready event handled right after a handled workload-ready event
\* leaves the plan, the services and the unit status as they were.
C3_PebbleReadyIdempotent ==
    [][(/\ last.event = "mariadb_pebble_ready"
        /\ last.outcome = "ok"
        /\ last'.event = "mariadb_pebble_ready"
        /\ last'.outcome = "ok")
       => (plan' = plan /\ services' = services /\ status' = status)]_vars

\* The workload-ready event was handled twice in a row, the second time by a charm
\* object whose constructor generated another password.
C3_Witness ==
    /\ last.event = "mariadb_pebble_ready"
    /\ last.outcome = "ok"
    /\ last.again
    /\ last.gen # stored["root_password"]

\* C4: an update-status check on the leader whose query is answered (running, not
\* running, or not found) returns normally and sets Waiting('service not ready
\* yet') unless the service runs, and Active when it runs: in particular it moves
\* a Waiting unit whose service runs to Active.
C4_UpdateStatusOnLeader ==
    [][(last'.event = "update_status" /\ leader /\ last'.fault = "none")
       => /\ last'.outcome = "ok"
          /\ ~ServiceRunning =>
                status' = [name |-> "waiting", message |-> "service not ready yet"]
          /\ ServiceRunning => status' = [name |-> "active", message |-> ""]
          /\ (status.name = "waiting" /\ ServiceRunning) => status'.name = "active"]_vars

\* A leader's status check found the unit Waiting and the service running.
C4_Witness ==
    /\ last.event = "update_status"
    /\ leader
    /\ last.was = "waiting"
    /\ status.name = "active"

\* A leader's status check got a not-found error from the query.
C4_WitnessNotFound ==
    /\ last.event = "update_status"
    /\ leader
    /\ last.fault = "none"
    /\ SERVICE \notin DOMAIN services
    /\ status.name = "waiting"

\* C5: on a configuration-changed event a unit that is not the leader leaves the
\* stored ports and the plan unchanged, and its status becomes Active.
C5_LeaderOnlyMutation ==
    [][(last'.event = "config_changed" /\ ~leader)
       => /\ stored'["ports"] = stored["ports"]
          /\ plan' = plan
          /\ status' = [name |-> "active", message |-> ""]]_vars

\* C6: the stored ports are <<3306>> initially, and a handled configuration-changed
\* event leaves them the one-element list of the configured port, leader or not.
C6_PortsTrackConfig ==
    /\ stored["ports"] = <<3306>>
    /\ [][(last'.event = "config_changed" /\ last'.outcome = "ok")
          => stored'["ports"] = <<config'>>]_vars

\* A unit that is not the leader handled configuration-changed with another port
\* than the default configured.
C6_Witness ==
    /\ last.event = "config_changed"
    /\ last.outcome = "ok"
    /\ ~leader
    /\ config # 3306
    /\ stored["ports"] = <<config>>

\* C7: a workload-ready event during which add_layer or autostart failed ends with
\* the status Blocked and the handler returned normally.
C7_PebbleFailureBlocks ==
    (last.event = "mariadb_pebble_ready" /\ last.fault # "none") =>
        /\ status.name = "blocked"
        /\ last.outcome = "ok"

\* C8: a handled configuration-changed event leaves the status Blocked when the
\* configured port is outside 1..65535, and accepts the port (stores it, does not
\* block) when it is inside.
C8_InvalidPortBlocks ==
    (last.event = "config_changed" /\ last.fault = "none") =>
        IF config \in 1..65535
        THEN stored["ports"] = <<config>> /\ status.name # "blocked"
        ELSE status.name = "blocked" /\ last.outcome = "ok"

\* C9: in every state the MYSQL_ROOT_PASSWORD of the plan's service, the
\* 'root-password' of the relation data bag, the password of the export or import
\* command an action ran and the password every backup file was exported with are
\* the stored root password; and an import of a file of the backup directory uses
\* the password and the host of the export that wrote the file.
C9_ConsumersSeeStoredCredential ==
    /\ \A s \in DOMAIN plan :
          plan[s].environment.MYSQL_ROOT_PASSWORD = stored["root_password"]
    /\ "root-password" \in DOMAIN relData =>
          relData["root-password"] = stored["root_password"]
    /\ last.report.tool.kind \in {"export", "import"} =>
          last.report.tool.password = stored["root_password"]
    /\ \A n \in DOMAIN backups : backups[n].password = stored["root_password"]
    /\ (last.report.tool.kind = "import" /\ last.report.tool.file \in DOMAIN backups) =>
          /\ last.report.tool.password = backups[last.report.tool.file].password
          /\ last.report.tool.host = backups[last.report.tool.file].host

\* A backup was restored by a charm object whose constructor generated another
\* password, on a unit whose plan and relation data bag hold the password too.
C9_Witness ==
    /\ last.event = "restore_action"
    /\ last.outcome = "ok"
    /\ ~last.report.failed
    /\ last.report.tool.kind = "import"
    /\ last.report.tool.file \in DOMAIN backups
    /\ last.gen # stored["root_password"]
    /\ SERVICE \in DOMAIN plan
    /\ "root-password" \in DOMAIN relData

\* C10: a peer relation joined or departed event does what configuration-changed
\* does (stores the configured port, sets the status by leadership and readiness),
\* and handled again right after itself it leaves stored ports and status as they were.
C10_PeerEventAsConfigChanged ==
    [][(last'.event \in ConfigEvents /\ last'.fault = "none")
       => /\ last'.outcome = "ok"
          /\ stored'["ports"] = <<config>>
          /\ status' = IF ~leader \/ ServiceRunning
                       THEN [name |-> "active", message |-> ""]
                       ELSE [name |-> "waiting", message |-> "service not ready yet"]
          /\ (last.event = last'.event /\ last.outcome = "ok")
                => (stored'["ports"] = stored["ports"] /\ status' = status)]_vars

\* A peer relation event was handled twice in a row, with a port stored that is
\* not the one the constructor defaulted.
C10_Witness ==
    /\ last.event \in {"peer_relation_joined", "peer_relation_departed"}
    /\ last.outcome = "ok"
    /\ last.again
    /\ stored["ports"] # <<3306>>

\* The action events the charm observes.
ActionEvents == {"restart_action", "backup_action", "listbackup_action", "restore_action"}

\* The diagnostic texts the calls an action makes can fail with.
Diagnostics ==
    {Diagnostic(c) : c \in {"get_service", "stop", "start", "mkdir", "unit_get",
                            "gzip", "redirect", "mysqldump", "ls", "action_get",
                            "gunzip", "mysql"}}

\* C11: a restore action that is given no path while the backup directory holds
\* no file, and whose action-get succeeded, returns, has called event.fail and
\* has run no import command.
C11_EmptyStoreStructuredFailure ==
    (/\ last.event = "restore_action"
     /\ last.fault # "action_get"
     /\ last.path = 0
     /\ DOMAIN backups = {})
    => (/\ last.outcome = "ok"
        /\ last.report.failed
        /\ last.report.tool.kind = "none")

\* C12: a restore action that reached its import command imports the file named
\* by the path when one is given; given none, it imports a file of the greatest
\* creation time, and of the files of that creation time the one of the greatest name.
C12_RestoreTargetSelection ==
    (last.event = "restore_action" /\ last.report.tool.kind = "import")
    => IF last.path # 0
       THEN last.report.tool.file = last.path
       ELSE /\ last.report.tool.file \in Newest
            /\ \A n \in Newest : n <= last.report.tool.file

\* C13: a backup action whose mysqldump exited non-zero has called event.fail and
\* has set no result that names the backup file.
C13_FailedExportNeverSucceeds ==
    (last.event = "backup_action" /\ last.fault = "mysqldump")
    => (/\ last.report.failed
        /\ last.report.results.message # "backup"
        /\ last.report.results.files = {})

\* C14: whenever a call of an action failed and the handler took the failure up,
\* event.fail was called, with the diagnostic text of a call: for every value of
\* params['fail'] no exception leaves _set_fail_message and the reason is no
\* text of the invoker's.
C14_FailureReasonIsDiagnostic ==
    (/\ last.event \in ActionEvents
     /\ last.fault \in {"gzip", "redirect", "ls", "action_get", "mysql",
                        "stop_ModelError", "start_ModelError"})
    => (/\ last.outcome = "ok"
        /\ last.report.failed
        /\ last.report.reason \in Diagnostics
        /\ last.report.results.fail = last.report.reason)

\* C16: every action returns, has called event.set_results, and is marked failed
\* exactly when a call it made failed.
C16_ActionsReturnStructuredOutcome ==
    last.event \in ActionEvents
    => (/\ last.outcome = "ok"
        /\ last.report.results.set
        /\ last.fault # "none" => last.report.failed)

\* C17: every lifecycle handler returns: no exception leaves it, whatever call
\* of a collaborator or subprocess fails.
C17_LifecycleHandlersReturn ==
    last.event \in LifecycleEvents => last.outcome = "ok"

\* The backup, list-backups and restore action events.
BackupEvents == {"backup_action", "listbackup_action", "restore_action"}

\* C15: a step that handles a backup, list-backups or restore action, however it
\* ends, leaves the unit status, the stored root password, the stored ports, the
\* plan and the services as they were.
C15_BackupActionsScoped ==
    [][last'.event \in BackupEvents
       => (/\ status' = status
           /\ stored'["root_password"] = stored["root_password"]
           /\ stored'["ports"] = stored["ports"]
           /\ plan' = plan
           /\ services' = services)]_vars

\* A restore action failed on a unit whose status a failed restart left at
\* Maintenance and whose plan holds the service.
C15_Witness ==
    /\ last.event = "restore_action"
    /\ last.report.failed
    /\ last.report.tool.kind = "import"
    /\ status = MaintenanceStatus("mariadb maintenance")
    /\ SERVICE \in DOMAIN plan

\* C18: a step that handles the restart action either fails at the status query
\* or at the stop and leaves status and services as they were, or fails at the
\* start and leaves the status at Maintenance and the service stopped only if it
\* was active, or starts the service and sets Active('mariadb restarted'); and a
\* step that changes the status handles a lifecycle event or the restart action.
C18_RestartOrdering ==
    [][/\ last'.event = "restart_action" =>
            CASE last'.fault \in {"PebbleError", "stop_ModelError", "stop_PebbleError"}
                 \/ SERVICE \notin DOMAIN services ->
                    /\ status' = status
                    /\ services' = services
                    /\ ~(last'.outcome = "ok" /\ ~last'.report.failed)
              [] last'.fault \in {"start_ModelError", "start_PebbleError"}
                 /\ SERVICE \in DOMAIN services ->
                    /\ status' = MaintenanceStatus("mariadb maintenance")
                    /\ services' = IF ServiceRunning
                                   THEN [services EXCEPT ![SERVICE] = "inactive"]
                                   ELSE services
                    /\ ~(last'.outcome = "ok" /\ ~last'.report.failed)
              [] OTHER ->
                    /\ status' = ActiveStatus("mariadb restarted")
                    /\ services' = [services EXCEPT ![SERVICE] = "active"]
                    /\ last'.outcome = "ok"
                    /\ ~last'.report.failed
       /\ status' # status => last'.event \in LifecycleEvents \cup {"restart_action"}]_vars

\* A restart stopped the running service of an active unit and failed at the
\* start: the status is Maintenance and the service is stopped.
C18_Witness ==
    /\ last.event = "restart_action"
    /\ last.fault = "start_ModelError"
    /\ last.was = "active"
    /\ last.report.failed
    /\ status = MaintenanceStatus("mariadb maintenance")
    /\ services[SERVICE] = "inactive"

\* C20: a status the charm has set is ActiveStatus(), ActiveStatus('mariadb
\* restarted'), WaitingStatus('service not ready yet') or
\* MaintenanceStatus('mariadb maintenance'), never a blocked one; and after a
\* non-leader handled config-changed or update-status the status is ActiveStatus().
C20_StatusValues ==
    /\ status # UnknownStatus =>
          status \in {ActiveStatus(""), ActiveStatus("mariadb restarted"),
                      WaitingStatus("service not ready yet"),
                      MaintenanceStatus("mariadb maintenance")}
    /\ status.name # "blocked"
    /\ (last.event \in {"config_changed", "update_status"} /\ ~leader) =>
          status = ActiveStatus("")

\* A non-leader whose service is not running and whose status a failed restart
\* left at Maintenance handled config-changed: its status is ActiveStatus().
C20_Witness ==
    /\ last.event = "config_changed"
    /\ ~leader
    /\ ~ServiceRunning
    /\ last.was = "maintenance"
    /\ status = ActiveStatus("")

====
